---- MODULE Spec2Model ----
(***************************************************************************)
(* Model of girls-trip-app: the Streamlit query pipeline of                *)
(* src/src/components/read_data.py and the routes.dat query of             *)
(* src/flights.py.                                                         *)
(*                                                                         *)
(* Python values are modelled as follows.  A missing dictionary key and a  *)
(* JSON null both make dict.get return None: a string field that is None   *)
(* is NoneStr, a duration that is None (NaN once in a DataFrame column) is *)
(* NoneDur.  An airport whose key is not in the index (airport_data.get    *)
(* returns None) is an entry with present = FALSE.  A DataFrame is the     *)
(* sequence of its rows; a DataFrame built from an empty list has no       *)
(* columns at all.                                                         *)
(***************************************************************************)
EXTENDS Integers, Sequences, FiniteSets, TLC

VARIABLES
    prog,                  \* "app" (read_data.py), "flights" (flights.py), "join" (direct call)
    pc,                    \* position in the script body
    airport1_code,         \* first origin code
    airport2_code,         \* second origin code
    remote,                \* the dataset the URL serves when the fetch succeeds
    airport_data,          \* read_data.py:144, [ok, data]
    common_destinations,   \* read_data.py:147 / flights.py:57
    df_flights,            \* read_data.py:150
    airport_df,            \* read_data.py:151
    common_destinations_df,\* read_data.py:154-157
    filtered_df,           \* read_data.py:161
    message,               \* what st.write / print reports
    destinations1,         \* flights.py:51, [ok, set]
    destinations2,         \* flights.py:52, [ok, set]
    log                    \* the HTTP GETs and destination-set computations, in order

vars == <<prog, pc, airport1_code, airport2_code, remote, airport_data,
          common_destinations, df_flights, airport_df, common_destinations_df,
          filtered_df, message, destinations1, destinations2, log>>

----------------------------------------------------------------------------
(* Bounds and value domains *)

\* The largest number of route entries in one dataset (both origins together).
MaxRoutes == 3

NoneStr == "None"
NoneDur == -1

Origins == {"SEA", "BOS"}
Dests == {"LAX", "ORD"}
Codes == Origins \cup Dests
Durations == {50, 60}

Truthy(s) == s # NoneStr /\ s # ""

\* A route with a destination code carries any duration; the duration of a
\* route without a destination code is never read by a matching scan.
Routes ==
    [iata : Dests, min : Durations \cup {NoneDur}]
        \cup [iata : {NoneStr, ""}, min : {NoneDur}]

\* The sequences over S of length at most n.
SeqsUpTo(S, n) == UNION {[1..k -> S] : k \in 0..n}

\* An airport entry of the structured dataset.
Entry(code, nm, dn, rts) ==
    [present |-> TRUE, iata |-> code, name |-> nm, display_name |-> dn, routes |-> rts]

NoEntry ==
    [present |-> FALSE, iata |-> NoneStr, name |-> NoneStr, display_name |-> NoneStr,
     routes |-> <<>>]

NameOf(code) == "Airport " \o code
CityOf(code) == "City of " \o code

\* The order in which the dataset lists its airports (dict insertion order).
KeyOrder == <<"SEA", "BOS", "LAX", "ORD">>

----------------------------------------------------------------------------
(* src/src/components/read_data.py: the pure functions *)

\* airport_data.get(code)
Get(data, code) == IF code \in DOMAIN data THEN data[code] ELSE NoEntry

\* Variant of CollectDestinations: the loop ends at the first route without a
\* destination code instead of skipping it.
RECURSIVE CollectDestinations_stop(_, _, _)
CollectDestinations_stop(routes, i, destinations) ==
    IF i > Len(routes) THEN destinations
    ELSE IF ~Truthy(routes[i].iata) THEN destinations
    ELSE CollectDestinations_stop(routes, i + 1, destinations \cup {routes[i].iata})

\* The for loop of get_airport_destinations, from route i on.
RECURSIVE CollectDestinations(_, _, _)
CollectDestinations(routes, i, destinations) ==
    IF i > Len(routes) THEN destinations
    ELSE CollectDestinations(routes, i + 1,
            IF Truthy(routes[i].iata)
            THEN destinations \cup {routes[i].iata}
            ELSE destinations)

get_airport_destinations(data, airport_code) ==
    LET airport_info == Get(data, airport_code)
    IN  IF ~airport_info.present THEN {}
        ELSE CollectDestinations(airport_info.routes, 1, {})

\* Variant of find_common_destinations: union instead of intersection.
find_common_destinations_union(data, airport1, airport2) ==
    LET d1 == get_airport_destinations(data, airport1)
        d2 == get_airport_destinations(data, airport2)
    IN  d1 \cup d2

find_common_destinations(data, airport1, airport2) ==
    LET d1 == get_airport_destinations(data, airport1)
        d2 == get_airport_destinations(data, airport2)
    IN  d1 \cap d2

MatchesFrom(routes, dest, i) == {j \in i..Len(routes) : routes[j].iata = dest}

\* Variant of FirstMatchTime: no break, so the last matching route wins.
RECURSIVE FirstMatchTime_last(_, _, _)
FirstMatchTime_last(routes, dest, i) ==
    IF i > Len(routes) THEN NoneDur
    ELSE LET later == FirstMatchTime_last(routes, dest, i + 1)
         IN  IF routes[i].iata = dest /\ MatchesFrom(routes, dest, i + 1) = {}
             THEN routes[i].min
             ELSE later

\* Variant of FirstMatchTime: the time starts at 0 instead of None.
RECURSIVE FirstMatchTime_zero(_, _, _)
FirstMatchTime_zero(routes, dest, i) ==
    IF i > Len(routes) THEN 0
    ELSE IF routes[i].iata = dest THEN routes[i].min
    ELSE FirstMatchTime_zero(routes, dest, i + 1)

\* The inner for loop of get_flight_times_df with its break, from route i on.
RECURSIVE FirstMatchTime(_, _, _)
FirstMatchTime(routes, dest, i) ==
    IF i > Len(routes) THEN NoneDur
    ELSE IF routes[i].iata = dest THEN routes[i].min
    ELSE FirstMatchTime(routes, dest, i + 1)

\* time1 / time2 of one destination for one origin.
LookupTime(data, origin_code, dest) ==
    LET origin_info == Get(data, origin_code)
    IN  IF origin_info.present THEN FirstMatchTime(origin_info.routes, dest, 1)
        ELSE NoneDur

\* Variant of get_flight_times_df: a destination for which no duration was
\* found gets no row.
get_flight_times_df_skip(data, airport1, airport2, dests) ==
    SelectSeq([i \in 1..Len(dests) |->
                  [iata |-> dests[i],
                   t1 |-> LookupTime(data, airport1, dests[i]),
                   t2 |-> LookupTime(data, airport2, dests[i])]],
              LAMBDA r : r.t1 # NoneDur \/ r.t2 # NoneDur)

\* dests is common_destinations in the order the for loop visits the set.
\* Field t1 is the column named airport1_code and t2 the column named
\* airport2_code; when the two codes are equal the columns are one and the
\* two values are the same lookup.
get_flight_times_df(data, airport1, airport2, dests) ==
    [i \in 1..Len(dests) |->
        [iata |-> dests[i],
         t1 |-> LookupTime(data, airport1, dests[i]),
         t2 |-> LookupTime(data, airport2, dests[i])]]

\* The rows extract_airport_data appends, for the keys from position i on.
RECURSIVE ExtractFrom(_, _)
ExtractFrom(data, i) ==
    IF i > Len(KeyOrder) THEN <<>>
    ELSE LET code == KeyOrder[i]
             info == Get(data, code)
             rest == ExtractFrom(data, i + 1)
         IN  IF code \in DOMAIN data
                 /\ Truthy(info.iata) /\ Truthy(info.name) /\ Truthy(info.display_name)
             THEN <<[iata |-> info.iata, name |-> info.name,
                     display_name |-> info.display_name]>> \o rest
             ELSE rest

extract_airport_data(data) == ExtractFrom(data, 1)

\* The rows of right whose key equals k, in right's order.
RECURSIVE Matching(_, _, _)
Matching(right, k, i) ==
    IF i > Len(right) THEN <<>>
    ELSE IF right[i].iata = k THEN <<right[i]>> \o Matching(right, k, i + 1)
    ELSE Matching(right, k, i + 1)

JoinedRow(l, nm, dn) ==
    [iata |-> l.iata, t1 |-> l.t1, t2 |-> l.t2, name |-> nm, display_name |-> dn]

\* The rows of one left row after the left join.
MergeRow(l, right) ==
    LET ms == Matching(right, l.iata, 1)
    IN  IF ms = <<>> THEN <<JoinedRow(l, NoneStr, NoneStr)>>
        ELSE [j \in 1..Len(ms) |-> JoinedRow(l, ms[j].name, ms[j].display_name)]

RECURSIVE MergeRows(_, _, _)
MergeRows(left, right, i) ==
    IF i > Len(left) THEN <<>>
    ELSE MergeRow(left[i], right) \o MergeRows(left, right, i + 1)

\* df_flights.merge(airport_df, how='left', on='iata').  pd.DataFrame([]) has
\* no columns, so merging on 'iata' with an empty airport_df raises KeyError.
merge(left, right) ==
    IF right = <<>> THEN [raised |-> TRUE, rows |-> <<>>]
    ELSE [raised |-> FALSE, rows |-> MergeRows(left, right, 1)]

Abs(x) == IF x < 0 THEN -x ELSE x

\* Variant of time_diff: an absent duration is not propagated.
time_diff_plain(t1, t2) == Abs(t1 - t2)

\* abs(df[airport1_code] - df[airport2_code]) for one row; NaN propagates.
time_diff(t1, t2) ==
    IF t1 = NoneDur \/ t2 = NoneDur THEN NoneDur ELSE Abs(t1 - t2)

WithTimeDiff(rows) ==
    [i \in 1..Len(rows) |->
        [iata |-> rows[i].iata, t1 |-> rows[i].t1, t2 |-> rows[i].t2,
         name |-> rows[i].name, display_name |-> rows[i].display_name,
         time_diff |-> time_diff(rows[i].t1, rows[i].t2)]]

\* df[df['time_diff'] <= min_diff]: a comparison with NaN is False.
RECURSIVE FilterRows(_, _, _)
FilterRows(rows, min_diff, i) ==
    IF i > Len(rows) THEN <<>>
    ELSE IF rows[i].time_diff # NoneDur /\ rows[i].time_diff <= min_diff
         THEN <<rows[i]>> \o FilterRows(rows, min_diff, i + 1)
         ELSE FilterRows(rows, min_diff, i + 1)

----------------------------------------------------------------------------
(* src/flights.py: the pure part *)

\* The outcomes of requests.get + raise_for_status + the payload parse.
FetchOutcomes == {"ok", "timeout", "network", "http_status", "parse"}

CsvRows == [src : Origins, dst : Dests]

NoSet == [ok |-> FALSE, set |-> {}]

\* flights.py get_airport_destinations: one GET of routes.dat, then the
\* filter on 'Source Airport' and unique() on 'Destination Airport'; any
\* exception gives None.
flights_get_airport_destinations(outcome, table, airport_code) ==
    IF outcome # "ok" THEN NoSet
    ELSE [ok |-> TRUE,
          set |-> {table[i].dst : i \in {j \in 1..Len(table) : table[j].src = airport_code}}]

\* Variant of flights_find_common_destinations: 'and' instead of 'or' in the
\* None test.
flights_find_common_destinations_and(d1, d2) ==
    IF ~d1.ok /\ ~d2.ok THEN NoSet
    ELSE [ok |-> TRUE, set |-> d1.set \cap d2.set]

\* flights.py find_common_destinations, given the two destination sets.
flights_find_common_destinations(d1, d2) ==
    IF ~d1.ok \/ ~d2.ok THEN NoSet
    ELSE [ok |-> TRUE, set |-> d1.set \cap d2.set]

----------------------------------------------------------------------------
(* The datasets and inputs the initial states are drawn from *)

NoData == [ok |-> FALSE, data |-> <<>>]

\* read_airport_data_from_url: the parsed payload, or None on any failure.
read_airport_data_from_url(outcome, payload) ==
    IF outcome = "ok" THEN [ok |-> TRUE, data |-> payload] ELSE NoData

CompleteEntry(code, rts) == Entry(code, NameOf(code), CityOf(code), rts)

\* A dataset with complete display fields whose origins carry routes s1, s2.
RouteIndex(s1, s2, keys) ==
    [c \in keys |->
        IF c = "SEA" THEN CompleteEntry(c, s1)
        ELSE IF c = "BOS" THEN CompleteEntry(c, s2)
        ELSE CompleteEntry(c, <<>>)]

\* An origin without routes may also be missing from the dataset.
KeySets(s1, s2) ==
    {Codes \ a : a \in SUBSET ((IF s1 = <<>> THEN {"SEA"} ELSE {})
                                    \cup (IF s2 = <<>> THEN {"BOS"} ELSE {}))}

MetaKinds ==
    {"complete", "no_iata", "empty_iata", "no_name", "empty_name",
     "no_display_name", "empty_display_name"}

OriginKinds == {"complete", "no_display_name"}

MetaEntry(code, kind, rts) ==
    Entry(IF kind = "no_iata" THEN NoneStr ELSE IF kind = "empty_iata" THEN "" ELSE code,
          IF kind = "no_name" THEN NoneStr ELSE IF kind = "empty_name" THEN "" ELSE NameOf(code),
          IF kind = "no_display_name" THEN NoneStr
          ELSE IF kind = "empty_display_name" THEN "" ELSE CityOf(code),
          rts)

\* The routes of the worked examples: SEA -> BOS 45, LAX 120, ORD 50 and 60;
\* BOS -> SEA 45, LAX 300 and ORD without a duration.
ExampleSEA ==
    <<[iata |-> "BOS", min |-> 45], [iata |-> "LAX", min |-> 120],
      [iata |-> "ORD", min |-> 50], [iata |-> "ORD", min |-> 60]>>

ExampleBOS ==
    <<[iata |-> "SEA", min |-> 45], [iata |-> "LAX", min |-> 300],
      [iata |-> "ORD", min |-> NoneDur]>>

\* kinds maps each key of the dataset to the state of its display fields.
MetaIndex(kinds) ==
    [c \in DOMAIN kinds |->
        MetaEntry(c, kinds[c],
                  IF c = "SEA" THEN ExampleSEA ELSE IF c = "BOS" THEN ExampleBOS ELSE <<>>)]

ExampleIndex == MetaIndex([c \in Codes |-> "complete"])

\* The orders in which a for loop may visit the set S.
Orders(S) ==
    {o \in [1..Cardinality(S) -> S] : \A i, j \in 1..Cardinality(S) : o[i] = o[j] => i = j}

\* The values the slider of read_data.py:160 (0 to 500, default 500) is set to.
SliderValues == {0, 10, 500}

Unset ==
    /\ pc = "start"
    /\ airport_data = NoData
    /\ common_destinations = NoSet
    /\ df_flights = <<>>
    /\ airport_df = <<>>
    /\ common_destinations_df = <<>>
    /\ filtered_df = <<>>
    /\ message = ""
    /\ destinations1 = NoSet
    /\ destinations2 = NoSet
    /\ log = <<>>

\* The Streamlit app on datasets whose route lists are enumerated.
InitAppRoutes ==
    \E n1 \in 0..MaxRoutes :
      \E s1 \in [1..n1 -> Routes] :
        \E s2 \in SeqsUpTo(Routes, MaxRoutes - n1) :
          \E keys \in KeySets(s1, s2) :
            /\ prog = "app"
            /\ remote = RouteIndex(s1, s2, keys)
            /\ airport1_code = "SEA"
            /\ airport2_code = "BOS"
            /\ Unset

\* The Streamlit app on datasets whose display fields are enumerated.
InitAppMeta ==
    \E ko1, ko2 \in OriginKinds :
      \E present \in SUBSET Dests :
        \E kd \in [present -> MetaKinds] :
          \E a1, a2 \in Origins :
            /\ prog = "app"
            /\ remote = MetaIndex([c \in Origins \cup present |->
                                     IF c = "SEA" THEN ko1
                                     ELSE IF c = "BOS" THEN ko2 ELSE kd[c]])
            /\ airport1_code = a1
            /\ airport2_code = a2
            /\ Unset

\* The Streamlit app with an empty text input, or on an empty dataset.
InitAppEdge ==
    \E a1, a2 \in Origins \cup {""} :
      \E d \in {<<>>, ExampleIndex} :
        /\ a1 = "" \/ a2 = "" \/ d = <<>>
        /\ prog = "app"
        /\ remote = d
        /\ airport1_code = a1
        /\ airport2_code = a2
        /\ Unset

\* flights.py on a routes table.
InitFlights ==
    \E table \in SeqsUpTo(CsvRows, MaxRoutes) :
      \E a1, a2 \in Origins :
        /\ prog = "flights"
        /\ remote = table
        /\ airport1_code = a1
        /\ airport2_code = a2
        /\ Unset

\* A direct call get_flight_times_df(index, "SEA", "BOS", common_set) with
\* any set of destination codes.
InitJoin ==
    \E n1 \in 0..MaxRoutes :
      \E s1 \in [1..n1 -> Routes] :
        \E s2 \in SeqsUpTo(Routes, MaxRoutes - n1) :
          \E keys \in KeySets(s1, s2) :
            \E cs \in SUBSET Dests :
              /\ prog = "join"
              /\ remote = RouteIndex(s1, s2, keys)
              /\ airport1_code = "SEA"
              /\ airport2_code = "BOS"
              /\ pc = "start"
              /\ airport_data = [ok |-> TRUE, data |-> remote]
              /\ common_destinations = [ok |-> TRUE, set |-> cs]
              /\ df_flights = <<>>
              /\ airport_df = <<>>
              /\ common_destinations_df = <<>>
              /\ filtered_df = <<>>
              /\ message = ""
              /\ destinations1 = NoSet
              /\ destinations2 = NoSet
              /\ log = <<>>

Init == InitAppRoutes \/ InitAppMeta \/ InitAppEdge \/ InitFlights \/ InitJoin

----------------------------------------------------------------------------
(* src/src/components/read_data.py: the script body, lines 139-178 *)

FailedToLoad == "Failed to load airport data. Please check the URL."
NoCommon == "No common destinations found"
EnterBoth == "Please enter both airport codes."
EnterFirst == "Please enter the first airport code"
EnterSecond == "Please enter the second airport code"
CouldNotRetrieve == "Could not retrieve destination data for one or both airports."

\* Lines 142 and 173-178: a text input is empty, nothing is fetched.
AppPrompt ==
    /\ prog = "app" /\ pc = "start"
    /\ ~(airport1_code # "" /\ airport2_code # "")
    /\ message' = IF airport1_code = "" /\ airport2_code = "" THEN EnterBoth
                  ELSE IF airport1_code = "" THEN EnterFirst ELSE EnterSecond
    /\ pc' = "done"
    /\ UNCHANGED <<prog, airport1_code, airport2_code, remote, airport_data,
                   common_destinations, df_flights, airport_df,
                   common_destinations_df, filtered_df, destinations1,
                   destinations2, log>>

\* Variant of AppFetch: a failed GET is tried once more.
AppFetch_retry ==
    /\ prog = "app" /\ pc = "start"
    /\ airport1_code # "" /\ airport2_code # ""
    /\ \E first, second \in FetchOutcomes :
         /\ airport_data' = IF first = "ok"
                            THEN read_airport_data_from_url(first, remote)
                            ELSE read_airport_data_from_url(second, remote)
         /\ log' = IF first = "ok" THEN Append(log, "GET") ELSE log \o <<"GET", "GET">>
    /\ pc' = "fetched"
    /\ UNCHANGED <<prog, airport1_code, airport2_code, remote,
                   common_destinations, df_flights, airport_df,
                   common_destinations_df, filtered_df, message,
                   destinations1, destinations2>>

\* Lines 142-144: the single GET of the dataset.
AppFetch ==
    /\ prog = "app" /\ pc = "start"
    /\ airport1_code # "" /\ airport2_code # ""
    /\ \E outcome \in FetchOutcomes :
         airport_data' = read_airport_data_from_url(outcome, remote)
    /\ log' = Append(log, "GET")
    /\ pc' = "fetched"
    /\ UNCHANGED <<prog, airport1_code, airport2_code, remote,
                   common_destinations, df_flights, airport_df,
                   common_destinations_df, filtered_df, message,
                   destinations1, destinations2>>

\* Lines 146, 171-172: None and the empty dictionary are both falsy.
AppFailed ==
    /\ prog = "app" /\ pc = "fetched"
    /\ ~(airport_data.ok /\ DOMAIN airport_data.data # {})
    /\ message' = FailedToLoad
    /\ pc' = "done"
    /\ UNCHANGED <<prog, airport1_code, airport2_code, remote, airport_data,
                   common_destinations, df_flights, airport_df,
                   common_destinations_df, filtered_df, destinations1,
                   destinations2, log>>

\* Variant of AppFindCommon: an origin that is not in the dataset ends the
\* query as a load failure.
AppFindCommon_strict ==
    /\ prog = "app" /\ pc = "fetched"
    /\ airport_data.ok /\ DOMAIN airport_data.data # {}
    /\ IF airport1_code \in DOMAIN airport_data.data
          /\ airport2_code \in DOMAIN airport_data.data
       THEN /\ common_destinations' =
                 [ok |-> TRUE,
                  set |-> find_common_destinations(airport_data.data, airport1_code,
                                                   airport2_code)]
            /\ log' = log \o <<"destinations", "destinations">>
            /\ pc' = "common"
            /\ UNCHANGED message
       ELSE /\ message' = FailedToLoad
            /\ pc' = "done"
            /\ UNCHANGED <<common_destinations, log>>
    /\ UNCHANGED <<prog, airport1_code, airport2_code, remote, airport_data,
                   df_flights, airport_df, common_destinations_df, filtered_df,
                   destinations1, destinations2>>

\* Lines 146-147.
AppFindCommon ==
    /\ prog = "app" /\ pc = "fetched"
    /\ airport_data.ok /\ DOMAIN airport_data.data # {}
    /\ common_destinations' =
         [ok |-> TRUE,
          set |-> find_common_destinations(airport_data.data, airport1_code, airport2_code)]
    /\ log' = log \o <<"destinations", "destinations">>
    /\ pc' = "common"
    /\ UNCHANGED <<prog, airport1_code, airport2_code, remote, airport_data,
                   df_flights, airport_df, common_destinations_df, filtered_df,
                   message, destinations1, destinations2>>

\* Lines 149, 169-170: the empty set is falsy.
AppNoCommon ==
    /\ prog = "app" /\ pc = "common"
    /\ common_destinations.set = {}
    /\ message' = NoCommon
    /\ pc' = "done"
    /\ UNCHANGED <<prog, airport1_code, airport2_code, remote, airport_data,
                   common_destinations, df_flights, airport_df,
                   common_destinations_df, filtered_df, destinations1,
                   destinations2, log>>

\* Lines 149-151.
AppJoin ==
    /\ prog = "app" /\ pc = "common"
    /\ common_destinations.set # {}
    /\ \E dests \in Orders(common_destinations.set) :
         df_flights' = get_flight_times_df(airport_data.data, airport1_code,
                                           airport2_code, dests)
    /\ airport_df' = extract_airport_data(airport_data.data)
    /\ pc' = "joined"
    /\ UNCHANGED <<prog, airport1_code, airport2_code, remote, airport_data,
                   common_destinations, common_destinations_df, filtered_df,
                   message, destinations1, destinations2, log>>

\* Lines 153-154.  df_flights has a row per common destination, so it is
\* never empty here and the else branch of line 167 is not taken.
AppMerge ==
    /\ prog = "app" /\ pc = "joined"
    /\ df_flights # <<>>
    /\ LET m == merge(df_flights, airport_df)
       IN  IF m.raised
           THEN /\ pc' = "raised"
                /\ message' = "KeyError: 'iata'"
                /\ UNCHANGED common_destinations_df
           ELSE /\ pc' = "merged"
                /\ common_destinations_df' = m.rows
                /\ UNCHANGED message
    /\ UNCHANGED <<prog, airport1_code, airport2_code, remote, airport_data,
                   common_destinations, df_flights, airport_df, filtered_df,
                   destinations1, destinations2, log>>

\* Line 157.
AppTimeDiff ==
    /\ prog = "app" /\ pc = "merged"
    /\ common_destinations_df' = WithTimeDiff(common_destinations_df)
    /\ pc' = "diffed"
    /\ UNCHANGED <<prog, airport1_code, airport2_code, remote, airport_data,
                   common_destinations, df_flights, airport_df, filtered_df,
                   message, destinations1, destinations2, log>>

\* Lines 160-165; the rename of line 163 changes column names only.
AppDisplay ==
    /\ prog = "app" /\ pc = "diffed"
    /\ \E min_diff \in SliderValues :
         filtered_df' = FilterRows(common_destinations_df, min_diff, 1)
    /\ pc' = "done"
    /\ UNCHANGED <<prog, airport1_code, airport2_code, remote, airport_data,
                   common_destinations, df_flights, airport_df,
                   common_destinations_df, message, destinations1,
                   destinations2, log>>

----------------------------------------------------------------------------
(* src/flights.py: find_common_destinations and the main block *)

\* Line 51: get_airport_destinations(airport1) issues its own GET.
FlightsFetch1 ==
    /\ prog = "flights" /\ pc = "start"
    /\ \E outcome \in FetchOutcomes :
         /\ destinations1' = flights_get_airport_destinations(outcome, remote, airport1_code)
         /\ log' = IF outcome = "ok" THEN log \o <<"GET", "destinations">>
                   ELSE Append(log, "GET")
    /\ pc' = "first"
    /\ UNCHANGED <<prog, airport1_code, airport2_code, remote, airport_data,
                   common_destinations, df_flights, airport_df,
                   common_destinations_df, filtered_df, message, destinations2>>

\* Line 52: get_airport_destinations(airport2) issues a second GET, whatever
\* the first call returned.
FlightsFetch2 ==
    /\ prog = "flights" /\ pc = "first"
    /\ \E outcome \in FetchOutcomes :
         /\ destinations2' = flights_get_airport_destinations(outcome, remote, airport2_code)
         /\ log' = IF outcome = "ok" THEN log \o <<"GET", "destinations">>
                   ELSE Append(log, "GET")
    /\ pc' = "second"
    /\ UNCHANGED <<prog, airport1_code, airport2_code, remote, airport_data,
                   common_destinations, df_flights, airport_df,
                   common_destinations_df, filtered_df, message, destinations1>>

\* Lines 54-58 and 64-74.
FlightsResult ==
    /\ prog = "flights" /\ pc = "second"
    /\ common_destinations' = flights_find_common_destinations(destinations1, destinations2)
    /\ message' = IF common_destinations'.ok THEN "Common destinations" ELSE CouldNotRetrieve
    /\ pc' = "done"
    /\ UNCHANGED <<prog, airport1_code, airport2_code, remote, airport_data,
                   df_flights, airport_df, common_destinations_df, filtered_df,
                   destinations1, destinations2, log>>

----------------------------------------------------------------------------
(* A direct call of get_flight_times_df *)

CallJoin ==
    /\ prog = "join" /\ pc = "start"
    /\ \E dests \in Orders(common_destinations.set) :
         df_flights' = get_flight_times_df(airport_data.data, airport1_code,
                                           airport2_code, dests)
    /\ pc' = "done"
    /\ UNCHANGED <<prog, airport1_code, airport2_code, remote, airport_data,
                   common_destinations, airport_df, common_destinations_df,
                   filtered_df, message, destinations1, destinations2, log>>

Next ==
    \/ AppPrompt
    \/ AppFetch
    \/ AppFailed
    \/ AppFindCommon
    \/ AppNoCommon
    \/ AppJoin
    \/ AppMerge
    \/ AppTimeDiff
    \/ AppDisplay
    \/ FlightsFetch1
    \/ FlightsFetch2
    \/ FlightsResult
    \/ CallJoin

Spec == Init /\ [][Next]_vars

----------------------------------------------------------------------------
(* Properties *)

\* The structured dataset of the current run (no such dataset in flights.py).
Index == IF prog = "flights" THEN <<>> ELSE remote

Count(seq, e) == Cardinality({i \in DOMAIN seq : seq[i] = e})

\* The positions of the routes to dest, and the first of them.
MatchPositions(routes, dest) == {i \in DOMAIN routes : routes[i].iata = dest}

FirstPosition(routes, dest) ==
    CHOOSE i \in MatchPositions(routes, dest) :
        \A j \in MatchPositions(routes, dest) : i <= j

\* The duration the first route to dest carries, absent without such a route.
FirstRouteDuration(data, origin, dest) ==
    LET routes == Get(data, origin).routes
    IN  IF MatchPositions(routes, dest) = {} THEN NoneDur
        ELSE routes[FirstPosition(routes, dest)].min

\* df_flights holds the result of get_flight_times_df.
JoinDone ==
    \/ prog = "app" /\ pc \in {"joined", "merged", "diffed", "raised"}
    \/ prog = "app" /\ pc = "done" /\ common_destinations.ok /\ common_destinations.set # {}
    \/ prog = "join" /\ pc = "done"

\* A GET of the app's query failed.
AppFetchFailed == prog = "app" /\ log # <<>> /\ ~airport_data.ok

\* C1: when the dataset fetch fails for either origin, the query ends with the
\* single top-level failure result and no destination set, row or table is
\* produced, also when the fetch for the other origin succeeded.
C1_FetchFailureAborts ==
    /\ AppFetchFailed =>
          /\ pc \in {"fetched", "done"}
          /\ pc = "done" => message = FailedToLoad
          /\ common_destinations = NoSet
          /\ df_flights = <<>> /\ airport_df = <<>>
          /\ common_destinations_df = <<>> /\ filtered_df = <<>>
    /\ (prog = "flights" /\ (~destinations1.ok \/ ~destinations2.ok)) =>
          /\ common_destinations = NoSet
          /\ pc = "done" => message = CouldNotRetrieve

\* C1 witness: the first origin's fetch succeeded with destinations, the
\* second failed, and the query has ended.
C1_Witness ==
    /\ prog = "flights" /\ pc = "done"
    /\ destinations1.ok /\ destinations1.set # {}
    /\ ~destinations2.ok
    /\ message = CouldNotRetrieve

\* C2: the duration reported for a destination from an origin is the duration
\* field of the first route, in stored order, to that destination, absent
\* when that first route has none; independently for the two origins.
C2_FirstMatchWins ==
    JoinDone =>
        \A i \in DOMAIN df_flights :
            /\ df_flights[i].t1 = FirstRouteDuration(Index, airport1_code, df_flights[i].iata)
            /\ df_flights[i].t2 = FirstRouteDuration(Index, airport2_code, df_flights[i].iata)

\* C2 witness: a pipeline row whose origin lists the destination twice, the
\* first route without a duration and a later one with a duration.
C2_Witness ==
    /\ prog = "app" /\ pc = "joined"
    /\ \E i \in DOMAIN df_flights :
         LET routes == Get(Index, airport1_code).routes
             ps == MatchPositions(routes, df_flights[i].iata)
         IN  /\ Cardinality(ps) >= 2
             /\ routes[FirstPosition(routes, df_flights[i].iata)].min = NoneDur
             /\ \E j \in ps : routes[j].min # NoneDur
             /\ df_flights[i].t1 = NoneDur
             /\ df_flights[i].t2 # NoneDur

\* C3: time_diff is present exactly when both durations are, and is then
\* their absolute difference; it is absent otherwise, and the computation
\* goes through whenever the merged frame exists.
C3_TimeDiff ==
    /\ (prog = "app" /\ pc \in {"diffed", "done"}) =>
          \A i \in DOMAIN common_destinations_df :
              LET r == common_destinations_df[i]
              IN  /\ (r.time_diff # NoneDur) <=> (r.t1 # NoneDur /\ r.t2 # NoneDur)
                  /\ r.time_diff # NoneDur =>
                        /\ r.time_diff >= 0
                        /\ r.time_diff = r.t1 - r.t2 \/ r.time_diff = r.t2 - r.t1
    /\ (prog = "app" /\ pc = "merged") => ENABLED AppTimeDiff
    /\ (prog = "app" /\ pc = "diffed") =>
          Len(common_destinations_df) >= Len(df_flights)

\* C3 witness: the LAX row of the worked example (120 and 300 give 180) next
\* to a row with an absent duration and an absent difference.
C3_Witness ==
    /\ prog = "app" /\ pc = "diffed"
    /\ \E i, j \in DOMAIN common_destinations_df :
         /\ common_destinations_df[i].t1 = 120
         /\ common_destinations_df[i].t2 = 300
         /\ common_destinations_df[i].time_diff = 180
         /\ common_destinations_df[j].t2 = NoneDur
         /\ common_destinations_df[j].time_diff = NoneDur

\* C4: get_flight_times_df never raises and returns exactly one row per
\* element of common_set, whatever durations are missing.
C4_OneRowPerDestination ==
    /\ (prog = "join" /\ pc = "start") => ENABLED CallJoin
    /\ (prog = "app" /\ pc = "common" /\ common_destinations.set # {}) => ENABLED AppJoin
    /\ JoinDone =>
          /\ Len(df_flights) = Cardinality(common_destinations.set)
          /\ \A d \in common_destinations.set :
                Cardinality({i \in DOMAIN df_flights : df_flights[i].iata = d}) = 1
          /\ \A i \in DOMAIN df_flights : df_flights[i].iata \in common_destinations.set

\* C4 witness: a direct call whose result has a row without either duration
\* and a row with both.
C4_Witness ==
    /\ prog = "join" /\ pc = "done"
    /\ \E i, j \in DOMAIN df_flights :
         /\ df_flights[i].t1 = NoneDur /\ df_flights[i].t2 = NoneDur
         /\ df_flights[j].t1 # NoneDur /\ df_flights[j].t2 # NoneDur

RouteCodes(data, code) ==
    {Get(data, code).routes[i].iata : i \in DOMAIN Get(data, code).routes}
        \ {NoneStr, ""}

\* C6: find_common_destinations is symmetric in the two codes and is exactly
\* the intersection of the two destination sets.
C6_CommonIsIntersection ==
    /\ (prog = "app" /\ pc = "common") =>
          /\ \A a, b \in Codes :
                /\ find_common_destinations(Index, a, b)
                      = find_common_destinations(Index, b, a)
                /\ \A c \in Codes \cup {NoneStr, ""} :
                      c \in find_common_destinations(Index, a, b)
                          <=> (c \in RouteCodes(Index, a) /\ c \in RouteCodes(Index, b))
          /\ common_destinations.set =
                RouteCodes(Index, airport1_code) \cap RouteCodes(Index, airport2_code)
    /\ (prog = "flights" /\ pc = "done") =>
          /\ common_destinations
                = flights_find_common_destinations(destinations2, destinations1)
          /\ common_destinations.ok =>
                \A c \in Codes :
                    c \in common_destinations.set
                        <=> /\ \E i \in DOMAIN remote :
                                 remote[i] = [src |-> airport1_code, dst |-> c]
                            /\ \E i \in DOMAIN remote :
                                 remote[i] = [src |-> airport2_code, dst |-> c]

\* C6 witness: a common set that is not empty and is smaller than each of
\* the two destination sets.
C6_Witness ==
    /\ prog = "app" /\ pc = "common"
    /\ common_destinations.set # {}
    /\ common_destinations.set # get_airport_destinations(Index, airport1_code)
    /\ common_destinations.set # get_airport_destinations(Index, airport2_code)

\* The airport entry under key c has all its required display fields.
Complete(data, c) ==
    Truthy(data[c].iata) /\ Truthy(data[c].name) /\ Truthy(data[c].display_name)

\* The merge step of line 154 has been executed.
MergeDone ==
    \/ prog = "app" /\ pc \in {"merged", "diffed", "raised"}
    \/ prog = "app" /\ pc = "done" /\ common_destinations.ok /\ common_destinations.set # {}

\* C7: an airport is in the metadata mapping iff its iata, name and
\* display_name are all present and non-empty, and every common destination
\* whose entry is excluded from the mapping keeps exactly one row in the
\* merged result, with the same durations and absent display fields.
C7_MetadataLeftJoin ==
    /\ (prog = "app" /\ JoinDone) =>
          /\ \A c \in DOMAIN Index :
                Complete(Index, c) <=>
                    \E i \in DOMAIN airport_df :
                        airport_df[i] = [iata |-> Index[c].iata, name |-> Index[c].name,
                                         display_name |-> Index[c].display_name]
          /\ Len(airport_df) = Cardinality({c \in DOMAIN Index : Complete(Index, c)})
    /\ MergeDone =>
          \A i \in DOMAIN df_flights :
              (\A k \in DOMAIN airport_df : airport_df[k].iata # df_flights[i].iata) =>
                  /\ Cardinality({j \in DOMAIN common_destinations_df :
                                    common_destinations_df[j].iata = df_flights[i].iata}) = 1
                  /\ \A j \in DOMAIN common_destinations_df :
                        common_destinations_df[j].iata = df_flights[i].iata =>
                            /\ common_destinations_df[j].t1 = df_flights[i].t1
                            /\ common_destinations_df[j].t2 = df_flights[i].t2
                            /\ common_destinations_df[j].name = NoneStr
                            /\ common_destinations_df[j].display_name = NoneStr

\* C8 as stated: a finished query has issued exactly one GET, before any
\* destination-set computation.
C8_SingleFetch ==
    (prog \in {"app", "flights"} /\ pc = "done"
        /\ airport1_code # "" /\ airport2_code # "") =>
        /\ Count(log, "GET") = 1
        /\ log[1] = "GET"

\* The log of one call of flights.py get_airport_destinations.
CallLog(d) == IF d.ok THEN <<"GET", "destinations">> ELSE <<"GET">>

\* C8, amended: a query of the Streamlit app issues exactly one GET, first
\* of all and never repeated; a query of flights.py issues exactly two GETs,
\* one per origin, the second after the first origin's destination set and
\* also after a failed first fetch, and repeats neither.
C8_FetchesPerQuery ==
    /\ (prog = "app" /\ airport1_code # "" /\ airport2_code # "") =>
          /\ pc = "start" => log = <<>>
          /\ pc # "start" => (Count(log, "GET") = 1 /\ log[1] = "GET")
    /\ (prog = "app" /\ (airport1_code = "" \/ airport2_code = "")) => log = <<>>
    /\ prog = "flights" =>
          /\ pc = "start" => log = <<>>
          /\ pc = "first" => log = CallLog(destinations1)
          /\ pc \in {"second", "done"} =>
                /\ log = CallLog(destinations1) \o CallLog(destinations2)
                /\ Count(log, "GET") = 2

\* C8 witness: a finished flights.py query whose first fetch failed and
\* whose second fetch was issued all the same.
C8_Witness ==
    /\ prog = "flights" /\ pc = "done"
    /\ ~destinations1.ok /\ destinations2.ok
    /\ log = <<"GET", "GET", "destinations">>

\* C9: the destination set of an airport of the index is exactly the set of
\* the non-empty destination codes of its routes.
C9_DestinationsExact ==
    (prog = "app" /\ pc = "common") =>
        \A c \in DOMAIN Index :
            /\ get_airport_destinations(Index, c) = RouteCodes(Index, c)
            /\ NoneStr \notin get_airport_destinations(Index, c)
            /\ "" \notin get_airport_destinations(Index, c)

\* C9 witness: an origin whose first route lacks a destination code and
\* whose next two routes name the same destination.
C9_Witness ==
    /\ prog = "app" /\ pc = "common"
    /\ LET routes == Get(Index, airport1_code).routes
       IN  /\ Len(routes) = 3
           /\ ~Truthy(routes[1].iata)
           /\ Truthy(routes[2].iata)
           /\ routes[3].iata = routes[2].iata
           /\ get_airport_destinations(Index, airport1_code) = {routes[2].iata}

\* C10: in the pipeline every row's destination has a route from each
\* origin, so a duration is absent only when the first matching route has
\* none; a direct call with a destination an origin does not serve, or with
\* an origin missing from the index, leaves that duration absent and does
\* not raise.
C10_DefensiveLookup ==
    /\ (prog = "app" /\ JoinDone) =>
          \A i \in DOMAIN df_flights :
              \A o \in {airport1_code, airport2_code} :
                  /\ o \in DOMAIN Index
                  /\ MatchPositions(Index[o].routes, df_flights[i].iata) # {}
    /\ (prog = "app" /\ JoinDone) =>
          \A i \in DOMAIN df_flights :
              /\ df_flights[i].t1 = NoneDur =>
                    Index[airport1_code].routes[
                        FirstPosition(Index[airport1_code].routes, df_flights[i].iata)].min
                            = NoneDur
              /\ df_flights[i].t2 = NoneDur =>
                    Index[airport2_code].routes[
                        FirstPosition(Index[airport2_code].routes, df_flights[i].iata)].min
                            = NoneDur
    /\ (prog = "join" /\ pc = "done") =>
          /\ Len(df_flights) = Cardinality(common_destinations.set)
          /\ \A i \in DOMAIN df_flights :
                /\ ( \/ airport1_code \notin DOMAIN Index
                     \/ MatchPositions(Get(Index, airport1_code).routes,
                                       df_flights[i].iata) = {} )
                      => df_flights[i].t1 = NoneDur
                /\ ( \/ airport2_code \notin DOMAIN Index
                     \/ MatchPositions(Get(Index, airport2_code).routes,
                                       df_flights[i].iata) = {} )
                      => df_flights[i].t2 = NoneDur

\* C10 witness: a direct call with a destination the first origin does not
\* serve and a second origin that is missing from the index.
C10_Witness ==
    /\ prog = "join" /\ pc = "done"
    /\ airport2_code \notin DOMAIN Index
    /\ Get(Index, airport1_code).routes # <<>>
    /\ \E i \in DOMAIN df_flights :
         /\ MatchPositions(Get(Index, airport1_code).routes, df_flights[i].iata) = {}
         /\ df_flights[i].t1 = NoneDur /\ df_flights[i].t2 = NoneDur

====
